---- MODULE Spec2Model ----
(***************************************************************************)
(* Embed session controller of the dashboard viewers.                      *)
(*                                                                         *)
(* Spec models the canonical viewer (DashboardViewer with performHygiene,  *)
(* getEmbedToken, embedReport): its React state, its refs, the embedding   *)
(* SDK objects it drives and every asynchronous continuation it leaves     *)
(* behind.  The event loop is cooperative: an action is the code that runs *)
(* between two suspension points (await, setTimeout, widget event).        *)
(*                                                                         *)
(* A slot is one asynchronous chain: a deferred embedReport call (the      *)
(* performHygiene(true).then(setTimeout(embedReport)) chains of the        *)
(* dashboard effect, of the render timer and of handleError), a forced     *)
(* cleanup of the debug panel, or an embedReport call in progress.  The    *)
(* session id that embedReport draws with crypto.randomUUID() is modelled  *)
(* by the slot number: ids are only ever compared for equality.            *)
(***************************************************************************)
EXTENDS Integers, FiniteSets, Sequences, TLC

\* ---------------------------------------------------------------- bounds
MaxSlots == 3          \* chains / embedReport calls per run, attended
MaxAutoSlots == 4      \* the same, for the unattended viewer
MaxCacheSlots == 2     \* the same, while the clock runs
MaxFailSlots == 3      \* the same, with a failing SDK constructor
MaxTicks == 1          \* clock advances per run
MaxCalls == 2          \* onSuccess / onError invocations counted
MaxTeardowns == 2      \* runs of a viewer's unmount cleanup
MaxDisposeSlots == 1   \* chains per run, before the cleanup runs
MaxViewerSlots == 3    \* chains per run, one viewer rendered
MaxLiveSlots == 3      \* chains per run, events delivered fairly
TickMs == 3300000      \* length of one clock advance, in ms
MaxLogCalls == 102     \* logger calls per run
MaxAddLogCalls == 7    \* addLog calls per run
MaxMissingSlots == 3   \* chains per run, dashboard without a dataset id
MaxHygieneCalls == 6   \* performHygiene calls per run, service instances counted

\* ------------------------------------------------------ program constants
TokenExpiresIn == 3600000
SafetyMargin == 300000
MaxUrlRetryAttempt == 3
MaxTimeoutRetryAttempt == 2
LogLimit == 100
AddLogKeep == 4

\* ------------------------------------------------------------ value sets
Reports == {"A", "B"}
Datasets == {"d1", "d2"}
Slots == 1..(IF MaxSlots > MaxAutoSlots THEN MaxSlots ELSE MaxAutoSlots)
NoReport == ""
NoDataset == ""
NoError == "null"

ErrCredentials == "Falha ao obter credenciais de acesso"
ErrInvalidUrl == "URL de embed invalida"
ErrTimeout == "Timeout ao carregar dashboard"
MsgInvalidEmbedUrl == "Invalid embed URL"
MsgTokenExpired == "TokenExpired"
WidgetMessages == {MsgInvalidEmbedUrl, MsgTokenExpired}

VARIABLES
  dashboard,         \* prop: report_id of the dashboard the host shows
  datasetOf,         \* prop: dataset_id of each dashboard
  isMounted,         \* isMounted.current
  effectPending,     \* the dashboard effect's deps changed, effect not yet run
  isLoading, isReady, error, loadingPhase, loadingProgress,   \* useState
  powerBiReport,     \* powerBiReport.current: widget handle, 0 = null
  powerBiService,    \* powerBiService.current: instance identity, 0 = null
  currentSessionId,  \* currentSessionId.current, 0 = the id drawn at mount
  currentReportId,   \* currentReportId.current
  tokenCache,        \* tokenCache.current: cacheKey -> [expires, url]
  attemptCounter,    \* attemptCounter.current
  workspaceClean,    \* workspaceClean.current
  now,               \* Date.now()
  slots,             \* asynchronous chains, by slot
  nextSlot,          \* next unused slot
  slotLimit,         \* slots available in this run
  handlersOn,        \* widgets with loaded/rendered/error handlers subscribed
  container,         \* widgets registered on the embed container by the SDK
  iframes,           \* widgets whose iframe is a child of the container
  onSuccessCalls,    \* onSuccess invocations since the last host command
  onErrorCalls,      \* onError invocations since the last host command
  fetchedSinceSwitch,  \* a token request went to the network since the last
                       \* change of dashboard (history variable)
  escaped,           \* a promise of the viewer was rejected with no handler
  locator,           \* validateEmbedUrl: the embed URL handed to it
  validation,        \* validateEmbedUrl: what it returned for locator
  teardowns,         \* runs of the unmount cleanup so far
  radical,           \* the radical-cleanup viewer's refs and container
  logs,              \* useState logs of the canonical viewer
  radicalLogs,       \* useState logs of the radical-cleanup viewer
  logCalls,          \* entries emitted so far, by viewer
  strayIframe,       \* another component keeps a PowerBI iframe in the
                     \* document, outside the container
  services,          \* service instances told apart: the one held, how
                     \* many were constructed, the performHygiene calls
  simple             \* the effect-based viewer: its state and effect runs

vars == <<dashboard, datasetOf, isMounted, effectPending, isLoading, isReady,
          error, loadingPhase, loadingProgress, powerBiReport, powerBiService,
          currentSessionId, currentReportId, tokenCache, attemptCounter,
          workspaceClean, now, slots, nextSlot, slotLimit, handlersOn, container,
          iframes, onSuccessCalls, onErrorCalls, fetchedSinceSwitch, escaped,
          locator, validation, teardowns, radical, logs, radicalLogs,
          logCalls, strayIframe, services, simple>>

\* groups used in UNCHANGED
uiVars == <<isLoading, isReady, error, loadingPhase, loadingProgress>>
propVars == <<dashboard, datasetOf, slotLimit>>
clockVars == <<now>>
validatorVars == <<locator, validation>>
disposeVars == <<teardowns, radical>>
logVars == <<logs, radicalLogs, logCalls>>
sideVars == <<logVars, strayIframe, services, simple>>
auxVars == <<escaped, validatorVars, disposeVars, sideVars>>
sdkVars == <<powerBiReport, powerBiService, handlersOn, container, iframes>>
callVars == <<onSuccessCalls, onErrorCalls>>

FreeSlot == [pc |-> "free", kind |-> "none", rep |-> NoReport, parent |-> 0,
             attempt |-> 0, streak |-> 0, isResolved |-> FALSE,
             timer |-> FALSE]

DoneSlot == [FreeSlot EXCEPT !.pc = "done"]

\* Continuations that can no longer do anything are retired at once:
\*  - an attempt whose widget can emit no event (handlers removed or iframe
\*    gone) and whose render timer has fired or will find isResolved set;
\*    the timer of a resolved attempt is a no-op and counts as fired;
\*  - after unmount (isMounted.current stays false), every continuation
\*    that only returns on its isMounted check;
\*  - a superseded embedReport (its session id never becomes current again)
\*    waiting on a point whose session check only returns, and the retry of
\*    handleError whose session check fails.
Retired(r, s, hOn, frames, mounted, cur) ==
  \/ /\ r.pc = "attached"
     /\ ~(s \in hOn /\ s \in frames)
     /\ (~r.timer \/ r.isResolved)
  \/ /\ ~mounted
     /\ r.pc \in {"hyg2", "c_hyg2", "stabilize", "embedCb", "attached"}
  \/ /\ r.pc \in {"hyg2", "stabilize"}
     /\ s # cur
  \/ /\ r.pc = "c_hyg2"
     /\ r.kind = "errRetry"
     /\ r.parent # cur
  \/ /\ r.pc = "c_hyg2"
     /\ r.kind = "debugHyg"

Settle(sl, hOn, frames, mounted, cur) ==
  [s \in DOMAIN sl |->
     IF Retired(sl[s], s, hOn, frames, mounted, cur) THEN DoneSlot
     ELSE IF sl[s].pc = "attached" /\ sl[s].isResolved
          THEN [sl[s] EXCEPT !.timer = FALSE]
          ELSE sl[s]]

\* onSuccess / onError invocations are counted up to MaxCalls
Count(n) == IF n < MaxCalls THEN n + 1 ELSE n

CacheKey(rep, ds) == <<rep, ds>>

\* ------------------------------------------------------ validateEmbedUrl
\* An embed URL is reduced to what the validators look at.
\*   kind          "notString" (typeof url !== "string"), "blank" (empty or
\*                 white space) or "text"
\*   https         url.startsWith("https://")
\*   parses        new URL(url) succeeds
\*   host          urlObj.hostname
\*   markerInPath  urlObj.pathname contains "/reportEmbed"
\*   markerAfter   the text after the path contains "/reportEmbed"
\*   reportId      params.get("reportId"): "absent" (missing or empty) or an id
\*   groupId       params.get("groupId") is non-empty
CanonicalHost == "app.powerbi.com"
RegionalHost == "msit.powerbi.com"
ForeignHost == "example.com"
LookalikeHost == "powerbi.com.example.net"
NoHost == "none"
ServiceHosts == {CanonicalHost, RegionalHost}
AbsentId == "absent"

NoLocator ==
  [kind |-> "blank", https |-> FALSE, parses |-> FALSE, host |-> NoHost,
   markerInPath |-> FALSE, markerAfter |-> FALSE, reportId |-> AbsentId,
   groupId |-> FALSE]

TextLocators ==
  {[kind |-> "text", https |-> h, parses |-> TRUE, host |-> d,
    markerInPath |-> mp, markerAfter |-> ma, reportId |-> r, groupId |-> g] :
     h \in BOOLEAN, d \in ServiceHosts \cup {ForeignHost, LookalikeHost},
     mp \in BOOLEAN,
     ma \in BOOLEAN, r \in Reports \cup {AbsentId}, g \in BOOLEAN}
  \cup
  {[NoLocator EXCEPT !.kind = "text", !.https = h, !.markerAfter = ma] :
     h \in BOOLEAN, ma \in BOOLEAN}

Locators ==
  {NoLocator, [NoLocator EXCEPT !.kind = "notString"]} \cup TextLocators

NoValidation == [done |-> FALSE]

ValidatorIdle == locator = NoLocator /\ validation = NoValidation

\* the radical-cleanup viewer's validateEmbedUrl, check by check
OnlyIf(cond, entry) == IF cond THEN <<entry>> ELSE <<>>

ProtocolErrors(u) == OnlyIf(~u.https, "protocol")

\* urlObj.hostname.includes("powerbi.com")
HostIncludesServiceName(host) == host \in ServiceHosts \cup {LookalikeHost}

DomainErrors(u) == OnlyIf(~HostIncludesServiceName(u.host), "domain")

DomainWarnings(u) == OnlyIf(u.host # CanonicalHost, "otherDomain")

PathErrors(u) == OnlyIf(~u.markerInPath, "path")

\* a report-id check that looks for the parameter and not at its value
ReportIdPresence(u, expectedId) ==
  OnlyIf(u.reportId = AbsentId, "reportIdAbsent")

ReportIdErrors(u, expectedId) ==
  IF u.reportId = AbsentId THEN <<"reportIdAbsent">>
  ELSE OnlyIf(u.reportId # expectedId, "reportIdMismatch")

\* a group-id check that reports nothing
GroupIdSilent(u) == <<>>

GroupIdWarnings(u) == OnlyIf(~u.groupId, "groupIdAbsent")

\* a verdict that a warning spoils as well
IsValidStrict(errors, warnings) == Len(errors) = 0 /\ Len(warnings) = 0

IsValidFor(errors, warnings) == Len(errors) = 0

ValidationResult(u, expectedId) ==
  IF u.kind = "notString"
  THEN [isValid |-> FALSE, errors |-> <<"notString">>, warnings |-> <<>>]
  ELSE IF u.kind = "blank"
  THEN [isValid |-> FALSE, errors |-> <<"empty">>, warnings |-> <<>>]
  ELSE LET errors ==
             ProtocolErrors(u) \o
             (IF u.parses
              THEN DomainErrors(u) \o PathErrors(u)
                     \o ReportIdErrors(u, expectedId)
              ELSE <<"malformed">>)
           warnings ==
             IF u.parses THEN DomainWarnings(u) \o GroupIdWarnings(u)
             ELSE <<>>
       IN [isValid |-> IsValidFor(errors, warnings), errors |-> errors,
           warnings |-> warnings]

\* the canonical viewer's validateEmbedUrl, check by check: the domain
\* pattern is anchored on "https://app.powerbi.com/" and the endpoint is
\* looked for in the whole text
DomainMatches(u) == u.https /\ u.parses /\ u.host = CanonicalHost

IsReportEmbed(u) == u.markerInPath \/ u.markerAfter

ReportIdMatches(u, expectedId) == u.parses /\ u.reportId = expectedId

validateEmbedUrlChecks(u, expectedId) ==
  /\ u.kind = "text"
  /\ u.https
  /\ DomainMatches(u)
  /\ IsReportEmbed(u)
  /\ ReportIdMatches(u, expectedId)

\* either validator is handed the locator, for the dashboard on display
validate ==
  /\ ~validation.done
  /\ validation' = [done |-> TRUE,
                    result |-> ValidationResult(locator, dashboard),
                    valid |-> validateEmbedUrlChecks(locator, dashboard)]
  /\ UNCHANGED <<propVars, isMounted, effectPending, uiVars, sdkVars,
                 currentSessionId, currentReportId, tokenCache, attemptCounter,
                 workspaceClean, clockVars, slots, nextSlot, callVars,
                 fetchedSinceSwitch, escaped, locator, disposeVars, sideVars>>

\* ------------------------------------------- radical-cleanup viewer
\* The refs the radical-cleanup viewer's teardown works on:
\*   mounted     mountedRef.current
\*   aborter     abortControllerRef.current is set
\*   report      reportRef.current is set
\*   listeners   the report has event handlers subscribed
\*   service     serviceRef.current is set
\*   embed       embedRef.current is set (the container element)
\*   children    the container has child nodes
\*   isCleaning  isCleaningRef.current: a radicalCleanup is at its await
\*   last        the step of this viewer taken last
\*   calls       runs of the unmount cleanup so far
\*   phase, error, retries, hasStarted    useState
\*   pc          where the performEmbed call in progress is suspended; at
\*               "wait500late" its 500 ms wait began while an earlier
\*               cleanup's 300 ms wait was pending, which ends first
\*   aborted     the pending token request was aborted
\*   embedded    the locator handed to service.embed for the report
\*   rep         dashboard.report_id in the closure of the performEmbed call
\*               in progress
RadicalAtRest ==
  [mounted |-> TRUE, aborter |-> FALSE, report |-> FALSE, listeners |-> FALSE,
   service |-> FALSE, embed |-> TRUE, children |-> FALSE, isCleaning |-> FALSE,
   last |-> "none", calls |-> 0, phase |-> "idle", error |-> NoError,
   retries |-> 0, hasStarted |-> FALSE, pc |-> "idle", aborted |-> FALSE,
   embedded |-> NoLocator, rep |-> NoReport]

\* the viewer at any point of a load: a report is embedded by a service and
\* handlers are subscribed on a report
RadicalStates ==
  {r \in [mounted : {TRUE}, aborter : BOOLEAN, report : BOOLEAN,
          listeners : BOOLEAN, service : BOOLEAN, embed : BOOLEAN,
          children : BOOLEAN, isCleaning : BOOLEAN, last : {"none"},
          calls : {0}, phase : {"idle"}, error : {NoError}, retries : {0},
          hasStarted : {FALSE}, pc : {"idle"}, aborted : {FALSE},
          embedded : {NoLocator}, rep : {NoReport}] :
     /\ r.listeners => r.report
     /\ r.report => r.service}

DisposeIdle == teardowns = 0 /\ radical = RadicalAtRest

\* radicalCleanup up to its await: abort, unsubscribe, drop the report and
\* the service, empty the container
radicalCleanup(r) ==
  IF r.isCleaning THEN r
  ELSE [r EXCEPT !.isCleaning = TRUE,
                 !.aborter = FALSE,
                 !.aborted = @ \/ (r.aborter /\ r.pc = "fetch"),
                 !.listeners = FALSE,
                 !.report = FALSE,
                 !.service = FALSE,
                 !.children = IF r.embed THEN FALSE ELSE @]

\* the unmount cleanup: mountedRef, abort(), radicalCleanup() not awaited
radicalUnmount ==
  /\ radical.calls < MaxTeardowns
  /\ radical' = [radicalCleanup([radical EXCEPT
                     !.mounted = FALSE,
                     !.aborted = @ \/ (radical.aborter /\ radical.pc = "fetch")])
                   EXCEPT !.last = "teardown", !.calls = @ + 1]
  /\ UNCHANGED <<propVars, isMounted, effectPending, uiVars, sdkVars,
                 currentSessionId, currentReportId, tokenCache, attemptCounter,
                 workspaceClean, clockVars, slots, nextSlot, callVars,
                 fetchedSinceSwitch, escaped, validatorVars, teardowns, sideVars>>

\* radicalCleanup after its 300 ms await: the final verification, then the
\* finally block
radicalCleanupResume ==
  /\ radical.isCleaning
  /\ radical' = [radical EXCEPT !.children = IF radical.embed THEN FALSE ELSE @,
                                !.isCleaning = FALSE,
                                !.pc = IF @ \in {"cleanup", "wait500late"}
                                       THEN "wait500" ELSE @,
                                !.last = "resume"]
  /\ UNCHANGED <<propVars, isMounted, effectPending, uiVars, sdkVars,
                 currentSessionId, currentReportId, tokenCache, attemptCounter,
                 workspaceClean, clockVars, slots, nextSlot, callVars,
                 fetchedSinceSwitch, escaped, validatorVars, teardowns, sideVars>>

\* ---- performEmbed of the radical-cleanup viewer
MAX_RETRIES == 3

ErrMissingIds == "IDs do dashboard ausentes"
ErrNoContainer == "Container nao inicializou"
ErrTokenHttp == "HTTP 500: Falha ao obter token"
ErrTokenNetwork == "Failed to fetch"
ErrTokenInvalid == "Token invalido"
ErrUrlInvalid == "URL invalida"
ErrWidget == "Erro desconhecido"

\* unchanged by every step of the radical-cleanup viewer
RadicalFrame ==
  UNCHANGED <<propVars, isMounted, effectPending, uiVars, sdkVars,
              currentSessionId, currentReportId, tokenCache, attemptCounter,
              workspaceClean, clockVars, slots, nextSlot, callVars,
              fetchedSinceSwitch, escaped, validatorVars, teardowns, sideVars>>

\* step 3 of performEmbed: validation.isValid
RadicalAccepts(u, expectedId) == ValidationResult(u, expectedId).isValid

\* report.on("loaded")
radicalOnLoaded(r) ==
  IF ~r.mounted THEN r
  ELSE [r EXCEPT !.phase = "ready", !.retries = 0, !.error = NoError]

\* the catch block of performEmbed
RadicalCatch(r, msg) ==
  IF ~r.mounted THEN [r EXCEPT !.pc = "idle"]
  ELSE [r EXCEPT !.pc = "idle", !.phase = "error", !.error = msg]

\* performEmbed from its entry to the await of radicalCleanup, which
\* resolves at once when a cleanup is already in progress
radicalPerformEmbed(r) ==
  IF ~r.mounted THEN r
  ELSE [radicalCleanup([r EXCEPT !.phase = "cleaning", !.rep = dashboard])
          EXCEPT !.pc = IF r.isCleaning THEN "wait500late" ELSE "cleanup"]

radicalHandleStartLoading ==
  /\ radical.mounted /\ radical.pc = "idle"
  /\ radical.phase = "idle" /\ ~radical.hasStarted
  /\ radical' = [radicalPerformEmbed([radical EXCEPT !.hasStarted = TRUE,
                                                     !.error = NoError,
                                                     !.retries = 0])
                   EXCEPT !.last = "start"]
  /\ RadicalFrame

radicalHandleRetry ==
  /\ radical.mounted /\ radical.pc = "idle"
  /\ radical.phase = "error" /\ radical.retries < MAX_RETRIES
  /\ radical' = [radicalPerformEmbed([radical EXCEPT !.retries = @ + 1,
                                                     !.error = NoError])
                   EXCEPT !.last = "retry"]
  /\ RadicalFrame

\* performEmbed after the 500 ms wait: steps 1 and 2 up to the token request
radicalAfterWait ==
  /\ radical.pc = "wait500"
  /\ \E idsPresent \in BOOLEAN :
       radical' =
         [(IF ~radical.mounted THEN [radical EXCEPT !.pc = "idle"]
           ELSE LET r == [radical EXCEPT !.aborter = TRUE, !.aborted = FALSE,
                                         !.phase = "validating"]
                IN IF ~idsPresent THEN RadicalCatch(r, ErrMissingIds)
                   ELSE IF ~r.embed THEN RadicalCatch(r, ErrNoContainer)
                   ELSE [r EXCEPT !.phase = "authenticating", !.pc = "fetch"])
          EXCEPT !.last = "wait"]
  /\ RadicalFrame

\* steps 4 to 6 of performEmbed for a validated locator u
RadicalEmbed(r, u) ==
  IF ~r.embed \/ ~r.mounted THEN RadicalCatch(r, "Container perdido")
  ELSE [r EXCEPT !.phase = "loading", !.service = TRUE, !.report = TRUE,
                 !.listeners = TRUE, !.children = TRUE, !.embedded = u,
                 !.pc = "idle"]

\* the token request is answered: AbortError for an aborted request, a
\* network error, a non-2xx status, a body with an unusable token, or a
\* token with a locator u
RadicalResponses ==
  [status : {"network", "http", "badToken"}, url : {NoLocator}]
    \cup [status : {"ok"}, url : Locators]

radicalFetchResponse ==
  /\ radical.pc = "fetch"
  /\ \E resp \in RadicalResponses :
       radical' =
         [(IF radical.aborted
           THEN [radical EXCEPT !.pc = "idle", !.aborted = FALSE]
           ELSE IF resp.status = "network"
           THEN RadicalCatch(radical, ErrTokenNetwork)
           ELSE IF resp.status = "http"
           THEN RadicalCatch(radical, ErrTokenHttp)
           ELSE IF ~radical.mounted THEN [radical EXCEPT !.pc = "idle"]
           ELSE IF resp.status = "badToken"
           THEN RadicalCatch(radical, ErrTokenInvalid)
           ELSE IF ~RadicalAccepts(resp.url, radical.rep)
           THEN RadicalCatch(radical, ErrUrlInvalid)
           ELSE RadicalEmbed([radical EXCEPT !.phase = "connecting"],
                             resp.url))
          EXCEPT !.last = "response"]
  /\ RadicalFrame

\* the widget emits events to the handlers subscribed on it while its iframe
\* is in the container
RadicalEmits == radical.listeners /\ radical.children

radicalLoaded ==
  /\ RadicalEmits
  /\ radical' = [radicalOnLoaded(radical) EXCEPT !.last = "loaded"]
  /\ RadicalFrame

\* report.on("rendered"): the handler logs
radicalRendered ==
  /\ RadicalEmits
  /\ radical' = [radical EXCEPT !.last = "rendered"]
  /\ RadicalFrame

\* report.on("error")
radicalError ==
  /\ RadicalEmits
  /\ radical' = [(IF ~radical.mounted THEN radical
                  ELSE [radical EXCEPT !.phase = "error", !.error = ErrWidget])
                 EXCEPT !.last = "error"]
  /\ RadicalFrame

\* the host passes another dashboard: the effect on dashboard.report_id
\* resets the state and starts a radicalCleanup it does not await
radicalDashboardChange ==
  /\ radical.mounted
  /\ \E d \in Reports \ {dashboard} : dashboard' = d
  /\ radical' = [radicalCleanup([radical EXCEPT !.phase = "idle",
                                                !.error = NoError,
                                                !.retries = 0,
                                                !.hasStarted = FALSE])
                   EXCEPT !.last = "change"]
  /\ UNCHANGED <<datasetOf, slotLimit, isMounted, effectPending, uiVars,
                 sdkVars, currentSessionId, currentReportId, tokenCache,
                 attemptCounter, workspaceClean, clockVars, slots, nextSlot,
                 callVars, fetchedSinceSwitch, escaped, validatorVars,
                 teardowns, sideVars>>

\* ------------------------------------------------ effect-based viewer
\* The viewer whose effect on (report_id, dataset_id) embeds the report.
\* Each run of the effect has its own isMounted flag, cleared by the run's
\* cleanup.
\*   mounted     the component is mounted (embedContainerRef.current is set)
\*   report      dashboard.report_id of the last render
\*   isLoading, isAuthenticating, embedError     useState
\*   widget      the run whose report is in the container, 0 for none
\*   runs        per run of the effect: where its embedReport is suspended,
\*               its isMounted flag, the report of its closure
\*   current     the number of effect runs so far
\*   by, last    the run that took the last step, and the step
MaxEffectRuns == 3
Runs == 1..MaxEffectRuns

ErrSimpleHttp == "HTTP 500: falha ao obter token"
ErrSimpleBody == "Token ou embedUrl ausente"
ErrSimpleThrown == "Erro inesperado"
ErrSimpleWidget == "Erro desconhecido ao carregar relatorio"

NoRun == [pc |-> "idle", isMounted |-> FALSE, rep |-> NoReport]

SimpleAtRest ==
  [mounted |-> TRUE, report |-> "A", isLoading |-> TRUE,
   isAuthenticating |-> TRUE, embedError |-> NoError, widget |-> 0,
   runs |-> [r \in Runs |-> NoRun], current |-> 0, by |-> 0, last |-> "none"]

SimpleFrame ==
  UNCHANGED <<propVars, isMounted, effectPending, uiVars, sdkVars,
              currentSessionId, currentReportId, tokenCache, attemptCounter,
              workspaceClean, clockVars, slots, nextSlot, callVars,
              fetchedSinceSwitch, escaped, validatorVars, disposeVars,
              logVars, strayIframe, services>>

\* a catch block that sets the state whatever the run's flag says
simpleCatchUnguarded(v, r, msg) ==
  [v EXCEPT !.runs[r].pc = "failed", !.embedError = msg,
            !.isLoading = FALSE, !.isAuthenticating = FALSE]

\* the catch block of embedReport in run r
simpleCatch(v, r, msg) ==
  IF ~v.runs[r].isMounted THEN [v EXCEPT !.runs[r].pc = "failed"]
  ELSE [v EXCEPT !.runs[r].pc = "failed", !.embedError = msg,
                 !.isLoading = FALSE, !.isAuthenticating = FALSE]

\* the cleanup of the latest effect run
simpleCleanup(v) ==
  IF v.current = 0 THEN v
  ELSE [v EXCEPT !.runs[v.current].isMounted = FALSE]

\* a run of the effect for report d, after the cleanup of the run before:
\* embedReport up to its token request
simpleRun(v, d) ==
  LET r == v.current + 1
  IN [simpleCleanup(v) EXCEPT
        !.report = d, !.current = r,
        !.runs[r] = [pc |-> "fetch", isMounted |-> TRUE, rep |-> d],
        !.isLoading = TRUE, !.isAuthenticating = TRUE,
        !.embedError = NoError, !.by = r, !.last = "effect"]

\* the effect runs on mount
simpleMount ==
  /\ simple.mounted /\ simple.current = 0
  /\ simple' = simpleRun(simple, simple.report)
  /\ SimpleFrame

\* the host passes another dashboard: cleanup, then the effect runs again
simpleDashboardChange ==
  /\ simple.mounted /\ simple.current \in 1..(MaxEffectRuns - 1)
  /\ \E d \in Reports \ {simple.report} : simple' = simpleRun(simple, d)
  /\ SimpleFrame

\* the component unmounts: the cleanup of the latest run
simpleUnmount ==
  /\ simple.mounted /\ simple.current > 0
  /\ simple' = [simpleCleanup(simple) EXCEPT !.mounted = FALSE, !.by = 0,
                                             !.last = "unmount"]
  /\ SimpleFrame

\* apiFetch settles in run r: it rejects, or answers with or without ok
simpleFetchResponse ==
  \E r \in Runs, resp \in {"rejected", "notOk", "ok"} :
    /\ simple.runs[r].pc = "fetch"
    /\ simple' =
         [(IF resp = "rejected" THEN simpleCatch(simple, r, ErrSimpleThrown)
           ELSE IF resp = "notOk" THEN simpleCatch(simple, r, ErrSimpleHttp)
           ELSE [simple EXCEPT !.runs[r].pc = "json"])
          EXCEPT !.by = r, !.last = "response"]
    /\ SimpleFrame

\* response.json() settles in run r; with token and embedUrl present the
\* run constructs a service and embeds when the container is there and its
\* flag is set
simpleEmbed ==
  \E r \in Runs, body \in {"rejected", "incomplete", "complete"},
     embedThrows \in BOOLEAN :
    /\ simple.runs[r].pc = "json"
    /\ simple' =
         [(IF body = "rejected" THEN simpleCatch(simple, r, ErrSimpleThrown)
           ELSE IF body = "incomplete"
           THEN simpleCatch(simple, r, ErrSimpleBody)
           ELSE IF ~(simple.mounted /\ simple.runs[r].isMounted)
           THEN [simple EXCEPT !.runs[r].pc = "skipped"]
           ELSE IF embedThrows
           THEN simpleCatch([simple EXCEPT !.widget = 0], r, ErrSimpleThrown)
           ELSE [simple EXCEPT !.runs[r].pc = "attached", !.widget = r])
          EXCEPT !.by = r, !.last = "embed"]
    /\ SimpleFrame

\* report.on("loaded") of the report embedded by run r
simpleLoaded ==
  \E r \in Runs :
    /\ simple.runs[r].pc = "attached"
    /\ simple' =
         [(IF ~simple.runs[r].isMounted THEN simple
           ELSE [simple EXCEPT !.isLoading = FALSE,
                               !.isAuthenticating = FALSE])
          EXCEPT !.by = r, !.last = "loaded"]
    /\ SimpleFrame

\* report.on("rendered"): the handler logs
simpleRendered ==
  \E r \in Runs :
    /\ simple.runs[r].pc = "attached"
    /\ simple' = [simple EXCEPT !.by = r, !.last = "rendered"]
    /\ SimpleFrame

\* report.on("error")
simpleError ==
  \E r \in Runs :
    /\ simple.runs[r].pc = "attached"
    /\ simple' =
         [(IF ~simple.runs[r].isMounted THEN simple
           ELSE [simple EXCEPT !.embedError = ErrSimpleWidget,
                               !.isLoading = FALSE,
                               !.isAuthenticating = FALSE])
          EXCEPT !.by = r, !.last = "error"]
    /\ SimpleFrame

\* ------------------------------------------------------------------ logs
\* An entry is identified by its rank among the entries emitted.
NoLogs == <<>>

LogsIdle ==
  /\ logs = NoLogs /\ radicalLogs = NoLogs
  /\ logCalls = [logger |-> 0, addLog |-> 0]

\* powerBiService.current is null until the first performHygiene
NoServices == [current |-> 0, built |-> 0, calls |-> <<>>]

SideIdle ==
  /\ LogsIdle /\ strayIframe = FALSE /\ services = NoServices
  /\ simple = SimpleAtRest

\* prev.slice(-n)
SliceLast(prev, n) ==
  IF Len(prev) <= n THEN prev ELSE SubSeq(prev, Len(prev) - n + 1, Len(prev))

\* a logger that never drops an entry
loggerKeepAll(prev, entry) == Append(prev, entry)

\* the updater logger hands to setLogs
loggerUpdate(prev, entry) ==
  LET newLogs == Append(prev, entry)
  IN IF Len(newLogs) > LogLimit THEN SliceLast(newLogs, LogLimit) ELSE newLogs

\* the updater addLog hands to setLogs
addLogUpdate(prev, logMessage) == Append(SliceLast(prev, AddLogKeep), logMessage)

logger ==
  /\ logCalls.logger < MaxLogCalls
  /\ logCalls' = [logCalls EXCEPT !.logger = @ + 1]
  /\ logs' = loggerUpdate(logs, logCalls'.logger)
  /\ UNCHANGED <<propVars, isMounted, effectPending, uiVars, sdkVars,
                 currentSessionId, currentReportId, tokenCache, attemptCounter,
                 workspaceClean, clockVars, slots, nextSlot, callVars,
                 fetchedSinceSwitch, escaped, validatorVars, disposeVars,
                 radicalLogs, strayIframe, services, simple>>

addLog ==
  /\ logCalls.addLog < MaxAddLogCalls
  /\ logCalls' = [logCalls EXCEPT !.addLog = @ + 1]
  /\ radicalLogs' = addLogUpdate(radicalLogs, logCalls'.addLog)
  /\ UNCHANGED <<propVars, isMounted, effectPending, uiVars, sdkVars,
                 currentSessionId, currentReportId, tokenCache, attemptCounter,
                 workspaceClean, clockVars, slots, nextSlot, callVars,
                 fetchedSinceSwitch, escaped, validatorVars, disposeVars,
                 logs, strayIframe, services, simple>>

\* ------------------------------------------------------------------ Init
\* The viewer as first rendered, before its effects have run.
InitRefs ==
  /\ isMounted = TRUE
  /\ effectPending = TRUE
  /\ isLoading = FALSE
  /\ isReady = FALSE
  /\ error = NoError
  /\ loadingPhase = "initial"
  /\ loadingProgress = 0
  /\ powerBiReport = 0
  /\ powerBiService = 0
  /\ currentSessionId = 0
  /\ currentReportId = NoReport
  /\ tokenCache = [k \in {} |-> 0]
  /\ attemptCounter = 0
  /\ workspaceClean = TRUE
  /\ now = 0
  /\ slots = [s \in Slots |-> FreeSlot]
  /\ nextSlot = 1
  /\ handlersOn = {}
  /\ container = {}
  /\ iframes = {}
  /\ onSuccessCalls = 0
  /\ onErrorCalls = 0
  /\ fetchedSinceSwitch = FALSE
  /\ escaped = FALSE

InitViewer ==
  /\ dashboard = "A"
  /\ datasetOf \in {f \in [Reports -> Datasets] : f["A"] = "d1"}
  /\ InitRefs

Init == InitViewer /\ ValidatorIdle /\ DisposeIdle /\ SideIdle /\ slotLimit = MaxSlots

InitAuto == InitViewer /\ ValidatorIdle /\ DisposeIdle /\ SideIdle /\ slotLimit = MaxAutoSlots

InitCache == InitViewer /\ ValidatorIdle /\ DisposeIdle /\ SideIdle /\ slotLimit = MaxCacheSlots

\* the validators alone, handed every kind of locator
InitValidate ==
  /\ InitViewer /\ DisposeIdle /\ SideIdle /\ slotLimit = 0
  /\ locator \in Locators
  /\ validation = NoValidation

SpecValidate == InitValidate /\ [][validate]_vars

\* the two loggers alone
InitLogs ==
  /\ InitViewer /\ ValidatorIdle /\ DisposeIdle /\ SideIdle /\ slotLimit = 0

NextLogs == logger \/ addLog

SpecLogs == InitLogs /\ [][NextLogs]_vars

\* ------------------------------------------------------- performHygiene
\* new service.Service(...): the viewer holds an instance (0 = null)
NewService == 1

\* service.reset(container): drops the SDK registration of the container and
\* removes the registered widget's iframe.
ResetContainer == {}
ResetIframes == iframes \ container

\* iframes left in the document when performHygiene reaches step 3
HygieneIframes == IF powerBiService # 0 THEN ResetIframes ELSE iframes

\* performHygiene awaits 100 ms after removing iframes (or always when deep)
HygieneWaits(deep) == deep \/ HygieneIframes # {} \/ strayIframe

\* verifyDomSanity after step 4: the container exists while mounted and step 4
\* has removed its children; it counts the PowerBI iframes of the whole
\* document.
verifyDomSanity(frames) == isMounted /\ frames = {} /\ ~strayIframe

\* a step 3 that keeps whatever instance there is
HygieneServiceReuse(deep, current, fresh) ==
  IF current = 0 THEN fresh ELSE current

\* step 3 of performHygiene: the instance held afterwards, where fresh is
\* what new service.Service(...) returns
HygieneService(deep, current, fresh) ==
  IF deep \/ current = 0 THEN fresh ELSE current

\* step 3 alone, with every constructed instance given its own number
performHygieneService ==
  /\ Len(services.calls) < MaxHygieneCalls
  /\ \E deep \in BOOLEAN :
       LET fresh == services.built + 1
           held == HygieneService(deep, services.current, fresh)
       IN services' = [current |-> held,
                       built |-> IF held = fresh THEN fresh
                                 ELSE services.built,
                       calls |-> Append(services.calls, deep)]
  /\ UNCHANGED <<propVars, isMounted, effectPending, uiVars, sdkVars,
                 currentSessionId, currentReportId, tokenCache, attemptCounter,
                 workspaceClean, clockVars, slots, nextSlot, callVars,
                 fetchedSinceSwitch, escaped, validatorVars, disposeVars,
                 logVars, strayIframe, simple>>

InitServices ==
  /\ InitViewer /\ ValidatorIdle /\ DisposeIdle /\ SideIdle /\ slotLimit = 0

SpecServices == InitServices /\ [][performHygieneService]_vars

\* performHygiene up to its first await.  Steps 1-3 always; when nothing is
\* awaited in step 3, steps 4-5 run in the same turn.
performHygiene(deep) ==
  /\ handlersOn' = handlersOn \ {powerBiReport}
  /\ powerBiReport' = 0
  /\ container' = IF powerBiService # 0 THEN ResetContainer ELSE container
  /\ powerBiService' = HygieneService(deep, powerBiService, NewService)
  /\ iframes' = {}
  /\ workspaceClean' = IF HygieneWaits(deep) THEN FALSE
                       ELSE verifyDomSanity({})

\* pc of a chain after the synchronous part of performHygiene
AfterHygieneSync(deep, waiting, settling) ==
  IF HygieneWaits(deep) THEN waiting ELSE settling

\* the dashboard effect re-runs when embedReport changes identity, which it
\* does whenever isLoading changes (useCallback deps)
DepsChanged(newLoading) == isMounted /\ (effectPending \/ newLoading # isLoading)

\* ----------------------------------------------------------- embedReport
\* embedReport from its entry to the await of performHygiene, for the call
\* that occupies slot s with the dashboard rep of its closure.
embedReportBegin(s, rep, streak) ==
  /\ isLoading' = TRUE
  /\ isReady' = FALSE
  /\ error' = NoError
  /\ attemptCounter' = attemptCounter + 1
  /\ currentSessionId' = s
  /\ currentReportId' = rep
  /\ loadingPhase' = "preparing"
  /\ loadingProgress' = 10
  /\ LET deep == ~workspaceClean \/ attemptCounter + 1 > 1
     IN /\ performHygiene(deep)
        /\ slots' = Settle([slots EXCEPT ![s] =
             [pc |-> AfterHygieneSync(deep, "hyg1", "hyg2"), kind |-> "run",
              rep |-> rep, parent |-> 0, attempt |-> attemptCounter + 1,
              streak |-> streak, isResolved |-> FALSE, timer |-> FALSE]],
             handlersOn', iframes', isMounted, s)
  /\ effectPending' = DepsChanged(TRUE)

\* "Carregar Dashboard": shown while nothing is loading, ready or failed
handleStartLoading ==
  /\ isMounted /\ ~effectPending
  /\ ~isLoading /\ ~isReady /\ error = NoError
  /\ nextSlot <= slotLimit
  /\ ~(isLoading /\ ~FALSE)
  /\ embedReportBegin(nextSlot, dashboard, 0)
  /\ nextSlot' = nextSlot + 1
  /\ onSuccessCalls' = 0 /\ onErrorCalls' = 0
  /\ UNCHANGED <<propVars, isMounted, tokenCache, clockVars, auxVars, fetchedSinceSwitch>>

\* "Tentar novamente": shown with an error while nothing is loading or ready
handleRetry ==
  /\ isMounted /\ ~effectPending
  /\ ~isLoading /\ ~isReady /\ error # NoError
  /\ nextSlot <= slotLimit
  /\ embedReportBegin(nextSlot, dashboard, 0)
  /\ nextSlot' = nextSlot + 1
  /\ onSuccessCalls' = 0 /\ onErrorCalls' = 0
  /\ UNCHANGED <<propVars, isMounted, tokenCache, clockVars, auxVars, fetchedSinceSwitch>>

\* debug panel, "Recarregar Dashboard": embedReport(true) at any time
debugReload ==
  /\ isMounted /\ ~effectPending
  /\ nextSlot <= slotLimit
  /\ embedReportBegin(nextSlot, dashboard, 0)
  /\ nextSlot' = nextSlot + 1
  /\ onSuccessCalls' = 0 /\ onErrorCalls' = 0
  /\ UNCHANGED <<propVars, isMounted, tokenCache, clockVars, auxVars, fetchedSinceSwitch>>

\* debug panel, "Limpeza Forcada": performHygiene(true) at any time
debugHygiene ==
  /\ isMounted /\ ~effectPending
  /\ nextSlot <= slotLimit
  /\ performHygiene(TRUE)
  /\ slots' = Settle([slots EXCEPT ![nextSlot] =
       [FreeSlot EXCEPT !.pc = "c_hyg1", !.kind = "debugHyg"]],
       handlersOn', iframes', isMounted, currentSessionId)
  /\ nextSlot' = nextSlot + 1
  /\ UNCHANGED <<propVars, isMounted, effectPending, uiVars, currentSessionId,
                 currentReportId, tokenCache, attemptCounter, clockVars, auxVars,
                 callVars, fetchedSinceSwitch>>

\* the host passes another dashboard
dashboardChange ==
  /\ isMounted /\ ~effectPending
  /\ \E d \in Reports \ {dashboard} : dashboard' = d
  /\ effectPending' = TRUE
  /\ onSuccessCalls' = 0 /\ onErrorCalls' = 0
  /\ fetchedSinceSwitch' = FALSE
  /\ UNCHANGED <<datasetOf, slotLimit, isMounted, uiVars, sdkVars,
                 currentSessionId,
                 currentReportId, tokenCache, attemptCounter, workspaceClean,
                 clockVars, auxVars, slots, nextSlot>>

\* delete tokenCache.current[key]
CacheDelete(cache, key) == [k \in DOMAIN cache \ {key} |-> cache[k]]

\* tokenCache.current[key] = entry
CacheStore(cache, key, entry) ==
  [k \in DOMAIN cache \cup {key} |-> IF k = key THEN entry ELSE cache[k]]

\* useEffect on [dashboard.report_id, ..., embedReport, ...]
useEffectDashboard ==
  /\ isMounted /\ effectPending
  /\ effectPending' = FALSE
  /\ IF currentReportId # dashboard
     THEN /\ nextSlot <= slotLimit
          /\ attemptCounter' = 0
          /\ tokenCache' = CacheDelete(tokenCache,
                              CacheKey(currentReportId, datasetOf[dashboard]))
          /\ isReady' = FALSE
          /\ error' = NoError
          /\ performHygiene(TRUE)
          /\ slots' = Settle([slots EXCEPT ![nextSlot] =
               [FreeSlot EXCEPT !.pc = "c_hyg1", !.kind = "effect",
                                !.rep = dashboard]],
               handlersOn', iframes', isMounted, currentSessionId)
          /\ nextSlot' = nextSlot + 1
     ELSE UNCHANGED <<attemptCounter, tokenCache, isReady, error, sdkVars,
                      workspaceClean, slots, nextSlot>>
  /\ UNCHANGED <<propVars, isMounted, isLoading, loadingPhase, loadingProgress,
                 currentSessionId, currentReportId, clockVars, auxVars, callVars,
                 fetchedSinceSwitch>>

\* cleanup of the mount effect
\* an unmount cleanup that subscribes the handlers back when they are off
unmountCleanupToggle ==
  /\ isMounted' = FALSE
  /\ handlersOn' = IF powerBiReport \in handlersOn
                   THEN handlersOn \ {powerBiReport}
                   ELSE handlersOn \cup {powerBiReport}
  /\ iframes' = {}
  /\ slots' = Settle(slots, handlersOn', iframes', FALSE, currentSessionId)
  /\ UNCHANGED <<propVars, effectPending, uiVars, powerBiReport,
                 powerBiService, container, currentSessionId, currentReportId,
                 tokenCache, attemptCounter, workspaceClean, clockVars,
                 escaped, validatorVars, radical, sideVars, nextSlot,
                 callVars, fetchedSinceSwitch>>

\* the cleanup returned by the mount effect
unmountCleanup ==
  /\ isMounted' = FALSE
  /\ handlersOn' = handlersOn \ {powerBiReport}
  /\ iframes' = {}
  /\ slots' = Settle(slots, handlersOn', iframes', FALSE, currentSessionId)
  /\ UNCHANGED <<propVars, effectPending, uiVars, powerBiReport,
                 powerBiService, container, currentSessionId, currentReportId,
                 tokenCache, attemptCounter, workspaceClean, clockVars,
                 escaped, validatorVars, radical, sideVars, nextSlot,
                 callVars, fetchedSinceSwitch>>

unmount ==
  /\ isMounted /\ ~effectPending
  /\ unmountCleanup
  /\ UNCHANGED teardowns

\* the cleanup run, whether or not it has run before
dispose ==
  /\ ~effectPending
  /\ teardowns < MaxTeardowns
  /\ unmountCleanup
  /\ teardowns' = teardowns + 1

\* Date.now() advances
tick ==
  /\ now < MaxTicks * TickMs
  /\ now' = now + TickMs
  /\ UNCHANGED <<propVars, isMounted, effectPending, uiVars, sdkVars,
                 currentSessionId, currentReportId, tokenCache, attemptCounter,
                 workspaceClean, slots, nextSlot, callVars, fetchedSinceSwitch,
                 auxVars>>

\* performHygiene after the 100 ms await of step 3: steps 4-5 (clear the
\* container's children, verify), then the settle delay
performHygieneResume(s) ==
  /\ slots[s].pc \in {"hyg1", "c_hyg1"}
  /\ iframes' = IF isMounted THEN {} ELSE iframes
  /\ workspaceClean' = verifyDomSanity({})
  /\ slots' = Settle([slots EXCEPT ![s].pc = IF @ = "hyg1" THEN "hyg2"
                                                ELSE "c_hyg2"],
                      handlersOn, iframes', isMounted, currentSessionId)
  /\ UNCHANGED <<propVars, isMounted, effectPending, uiVars, powerBiReport,
                 powerBiService, handlersOn, container, currentSessionId,
                 currentReportId, tokenCache, attemptCounter, clockVars, auxVars,
                 nextSlot, callVars, fetchedSinceSwitch>>

\* the callback a chain scheduled after performHygiene(true) resolved:
\* setTimeout(500) of the effect and of the render timer, the 1000 ms wait
\* and session check of handleError, nothing for the debug cleanup
chainResume(s) ==
  /\ slots[s].pc = "c_hyg2"
  /\ IF /\ isMounted
        /\ slots[s].kind \in {"effect", "timer", "errRetry"}
        /\ slots[s].kind = "errRetry" => slots[s].parent = currentSessionId
     THEN /\ embedReportBegin(s, slots[s].rep, slots[s].streak)
          /\ UNCHANGED <<propVars, isMounted, tokenCache, clockVars, auxVars, nextSlot,
                         callVars, fetchedSinceSwitch>>
     ELSE /\ slots' = [slots EXCEPT ![s] = DoneSlot]
          /\ UNCHANGED <<propVars, isMounted, effectPending, uiVars, sdkVars,
                         currentSessionId, currentReportId, tokenCache,
                         attemptCounter, workspaceClean, clockVars, auxVars, nextSlot,
                         callVars, fetchedSinceSwitch>>

\* a validator that accepts whatever it is handed
validateEmbedUrlAny(url, expectedId) == TRUE

\* validateEmbedUrl: the locator is reduced to the report id it carries
\* ("none": absent or malformed); the other checks pass for backend locators
validateEmbedUrl(url, expectedId) == url = expectedId

\* the catch block of embedReport
CatchError(s, msg) ==
  /\ error' = msg
  /\ isLoading' = FALSE
  /\ onErrorCalls' = Count(onErrorCalls)
  /\ effectPending' = DepsChanged(FALSE)
  /\ slots' = [slots EXCEPT ![s] = DoneSlot]
  /\ UNCHANGED <<isReady, onSuccessCalls>>

\* phases 3 and 4 without the stabilization delay before the embed
embedReportValidateAtOnce(s, url) ==
  IF validateEmbedUrl(url, slots[s].rep)
  THEN /\ loadingPhase' = "configuring"
       /\ loadingProgress' = 55
       /\ slots' = [slots EXCEPT ![s].pc = "embedCb"]
       /\ UNCHANGED <<isLoading, isReady, error, effectPending, callVars>>
  ELSE /\ loadingPhase' = "validating"
       /\ loadingProgress' = 40
       /\ CatchError(s, ErrInvalidUrl)

\* embedReport from the credential to the stabilization delay
\* (phases 3 and 4)
embedReportValidate(s, url) ==
  IF validateEmbedUrl(url, slots[s].rep)
  THEN /\ loadingPhase' = "configuring"
       /\ loadingProgress' = 55
       /\ slots' = [slots EXCEPT ![s].pc = "stabilize"]
       /\ UNCHANGED <<isLoading, isReady, error, effectPending, callVars>>
  ELSE /\ loadingPhase' = "validating"
       /\ loadingProgress' = 40
       /\ CatchError(s, ErrInvalidUrl)

\* getEmbedToken: cache lookup
\* shouldUseCache without the comparison to Date.now()
ShouldUseCacheForever(s) ==
  /\ currentReportId = slots[s].rep
  /\ CacheKey(slots[s].rep, datasetOf[slots[s].rep]) \in DOMAIN tokenCache

IsNewDashboard(s) == currentReportId # slots[s].rep
SlotKey(s) == CacheKey(slots[s].rep, datasetOf[slots[s].rep])
ShouldUseCache(s) ==
  /\ ~IsNewDashboard(s)
  /\ SlotKey(s) \in DOMAIN tokenCache
  /\ tokenCache[SlotKey(s)].expires > now

\* an embedReport that gives up when the workspace is not clean after
\* performHygiene
embedReportAbortsUnclean(s) ==
  /\ slots[s].pc = "hyg2"
  /\ IF workspaceClean
     THEN /\ loadingPhase' = "authenticating"
          /\ loadingProgress' = 25
          /\ slots' = [slots EXCEPT ![s].pc = "token"]
     ELSE /\ slots' = [slots EXCEPT ![s] = DoneSlot]
          /\ UNCHANGED <<loadingPhase, loadingProgress>>
  /\ UNCHANGED <<propVars, isMounted, sdkVars, currentSessionId,
                 currentReportId, attemptCounter, workspaceClean, clockVars,
                 auxVars, nextSlot, isLoading, isReady, error, effectPending,
                 callVars, tokenCache, fetchedSinceSwitch>>

\* embedReport resumed after performHygiene: session check, then
\* getEmbedToken up to the network request (or through, on a cache hit)
embedReportAfterHygiene(s) ==
  /\ slots[s].pc = "hyg2"
  /\ IF ~isMounted \/ s # currentSessionId
     THEN /\ slots' = [slots EXCEPT ![s] = DoneSlot]
          /\ UNCHANGED <<effectPending, uiVars, tokenCache, callVars,
                         fetchedSinceSwitch>>
     ELSE IF ShouldUseCache(s)
     THEN /\ UNCHANGED fetchedSinceSwitch
          /\ embedReportValidate(s, tokenCache[SlotKey(s)].url)
          /\ UNCHANGED tokenCache
     ELSE /\ tokenCache' = IF IsNewDashboard(s) /\ SlotKey(s) \in DOMAIN tokenCache
                           THEN CacheDelete(tokenCache, SlotKey(s))
                           ELSE tokenCache
          /\ loadingPhase' = "authenticating"
          /\ loadingProgress' = 25
          /\ slots' = [slots EXCEPT ![s].pc = "token"]
          /\ fetchedSinceSwitch' = (fetchedSinceSwitch \/ slots[s].rep = dashboard)
          /\ UNCHANGED <<isLoading, isReady, error, effectPending, callVars>>
  /\ UNCHANGED <<propVars, isMounted, sdkVars, currentSessionId,
                 currentReportId, attemptCounter, workspaceClean, clockVars, auxVars,
                 nextSlot>>

\* answers to the token request: the 15 s abort ("timeout") and a network
\* error reject apiFetch; "http" is a non-2xx status; "missing" a body
\* without token or embedUrl; otherwise a token with a locator for report u
\* ("none": a locator that fails validation)
Rejections == {"timeout", "network"}
Failures == Rejections \cup {"http", "missing"}
Responses(s) == Failures \cup {"none", slots[s].rep}

TokenNull == "null"
TokenThrown == "throw"
ErrFetchThrew == "The operation was aborted"

\* getEmbedToken without its catch block: the rejection reaches the caller
getEmbedTokenRethrows(resp) == TokenThrown

\* what getEmbedToken hands to its caller for a response: its catch block
\* turns a rejection of apiFetch into null
getEmbedTokenCatch(resp) == TokenNull

\* a getEmbedToken that hands a failed response on as a credential without a
\* locator
getEmbedTokenReturnsBody(resp) == IF resp \in Failures THEN "none" ELSE resp

getEmbedTokenReturn(resp) ==
  IF resp \in Rejections THEN getEmbedTokenCatch(resp)
  ELSE IF resp = "http" THEN TokenNull
  ELSE IF resp = "missing" THEN TokenNull
  ELSE resp

\* the cache once getEmbedToken has handled the response to the request of
\* slot s
TokenCacheAfter(s, resp) ==
  IF resp \in Failures THEN tokenCache
  ELSE CacheStore(tokenCache, SlotKey(s),
                  [expires |-> now + TokenExpiresIn - SafetyMargin,
                   url |-> resp])

\* getEmbedToken resumed with the response, then embedReport's check of the
\* credential and of the session
getEmbedTokenResponse(s) ==
  /\ slots[s].pc = "token"
  /\ \E resp \in Responses(s) :
       LET tokenData == getEmbedTokenReturn(resp) IN
       /\ tokenCache' = TokenCacheAfter(s, resp)
       /\ IF tokenData = TokenThrown
          THEN /\ CatchError(s, ErrFetchThrew)
               /\ UNCHANGED <<loadingPhase, loadingProgress>>
          ELSE IF tokenData = TokenNull \/ ~isMounted \/ s # currentSessionId
          THEN /\ CatchError(s, ErrCredentials)
               /\ UNCHANGED <<loadingPhase, loadingProgress>>
          ELSE embedReportValidate(s, tokenData)
  /\ UNCHANGED <<propVars, isMounted, sdkVars, currentSessionId,
                 currentReportId, attemptCounter, workspaceClean, clockVars, auxVars,
                 nextSlot, fetchedSinceSwitch>>

\* embedReport resumed after the 200 ms stabilization delay
embedReportAfterStabilize(s) ==
  /\ slots[s].pc = "stabilize"
  /\ IF ~isMounted \/ s # currentSessionId
     THEN /\ slots' = [slots EXCEPT ![s] = DoneSlot]
          /\ UNCHANGED <<loadingPhase, loadingProgress>>
     ELSE /\ loadingPhase' = "rendering"
          /\ loadingProgress' = 70
          /\ slots' = [slots EXCEPT ![s].pc = "embedCb"]
  /\ UNCHANGED <<propVars, isMounted, effectPending, isLoading, isReady, error,
                 sdkVars, currentSessionId, currentReportId, tokenCache,
                 attemptCounter, workspaceClean, clockVars, auxVars, nextSlot, callVars,
                 fetchedSinceSwitch>>

ErrEmbedThrew == "Cannot read properties of null"

\* powerBiService.embed(container, embedConfig), the handle stored, the
\* three handlers registered and the 45 s render timer armed
serviceEmbed(s) ==
  /\ container' = container \cup {s}
  /\ iframes' = iframes \cup {s}
  /\ powerBiReport' = s
  /\ handlersOn' = handlersOn \cup {s}
  /\ slots' = [slots EXCEPT ![s].pc = "attached", ![s].isResolved = FALSE,
                            ![s].timer = TRUE]
  /\ UNCHANGED <<powerBiService, effectPending, uiVars, callVars>>

\* the setTimeout(100) callback of the render promise
embedCallback(s) ==
  /\ slots[s].pc = "embedCb"
  /\ IF ~isMounted \/ powerBiService = 0
     THEN /\ slots' = [slots EXCEPT ![s] = DoneSlot]
          /\ UNCHANGED <<sdkVars, effectPending, uiVars, callVars>>
     ELSE IF container # {}
     THEN /\ container' = ResetContainer
          /\ iframes' = ResetIframes
          /\ slots' = Settle([slots EXCEPT ![s].pc = "resetWait"],
                              handlersOn, iframes', isMounted,
                              currentSessionId)
          /\ UNCHANGED <<powerBiReport, powerBiService, handlersOn,
                         effectPending, uiVars, callVars>>
     ELSE serviceEmbed(s)
  /\ UNCHANGED <<propVars, isMounted, currentSessionId, currentReportId,
                 tokenCache, attemptCounter, workspaceClean, clockVars, auxVars,
                 nextSlot, fetchedSinceSwitch>>

\* the callback resumed 100 ms after it reset an existing embed; embed on the
\* container of an unmounted viewer (ref null) throws into the inner catch
embedAfterReset(s) ==
  /\ slots[s].pc = "resetWait"
  /\ IF ~isMounted
     THEN /\ CatchError(s, ErrEmbedThrew)
          /\ UNCHANGED <<sdkVars, loadingPhase, loadingProgress>>
     ELSE serviceEmbed(s)
  /\ UNCHANGED <<propVars, isMounted, currentSessionId, currentReportId,
                 tokenCache, attemptCounter, workspaceClean, clockVars, auxVars,
                 nextSlot, fetchedSinceSwitch>>

\* a widget emits events to the handlers subscribed on it while its iframe is
\* in the document
Emits(s) == s \in handlersOn /\ s \in iframes

handleLoaded(s) ==
  /\ Emits(s)
  /\ loadingProgress' = 85
  /\ loadingPhase' = "finalizing"
  /\ UNCHANGED <<propVars, isMounted, effectPending, isLoading, isReady, error,
                 sdkVars, currentSessionId, currentReportId, tokenCache,
                 attemptCounter, workspaceClean, clockVars, auxVars, slots, nextSlot,
                 callVars, fetchedSinceSwitch>>

handleRendered(s) ==
  /\ Emits(s)
  /\ ~(slots[s].isResolved \/ ~isMounted)
  /\ slots' = Settle([slots EXCEPT ![s].isResolved = TRUE],
                      handlersOn, iframes, isMounted, currentSessionId)
  /\ loadingProgress' = 100
  /\ isLoading' = FALSE
  /\ isReady' = TRUE
  /\ error' = NoError
  /\ attemptCounter' = 0
  /\ onSuccessCalls' = Count(onSuccessCalls)
  /\ effectPending' = DepsChanged(FALSE)
  /\ UNCHANGED <<propVars, isMounted, loadingPhase, sdkVars, currentSessionId,
                 currentReportId, tokenCache, workspaceClean, clockVars, auxVars,
                 nextSlot, onErrorCalls, fetchedSinceSwitch>>

\* isUrlError: the message contains 'Invalid embed URL', 'embed' or 'URL'
\* an isUrlError that every message satisfies
IsUrlErrorAlways(msg) == TRUE

IsUrlError(msg) == msg \in {MsgInvalidEmbedUrl}

\* handleError for an error event that carries the message msg
handleErrorWith(s, msg) ==
  /\ Emits(s)
  /\ ~(slots[s].isResolved \/ ~isMounted)
  /\ msg \in WidgetMessages
  /\ IF IsUrlError(msg) /\ attemptCounter <= MaxUrlRetryAttempt
       THEN /\ nextSlot <= slotLimit
            /\ performHygiene(TRUE)
            /\ slots' = Settle([slots EXCEPT ![nextSlot] =
                 [FreeSlot EXCEPT !.pc = "c_hyg1", !.kind = "errRetry",
                                  !.rep = slots[s].rep, !.parent = s,
                                  !.streak = slots[s].streak + 1]],
                 handlersOn', iframes', isMounted, currentSessionId)
            /\ nextSlot' = nextSlot + 1
            /\ UNCHANGED <<effectPending, uiVars, callVars>>
       ELSE /\ slots' = Settle([slots EXCEPT ![s].isResolved = TRUE],
                                handlersOn, iframes, isMounted,
                                currentSessionId)
            /\ error' = msg
            /\ isLoading' = FALSE
            /\ onErrorCalls' = Count(onErrorCalls)
            /\ effectPending' = DepsChanged(FALSE)
            /\ UNCHANGED <<isReady, loadingPhase, loadingProgress, sdkVars,
                           workspaceClean, nextSlot, onSuccessCalls>>
  /\ UNCHANGED <<propVars, isMounted, currentSessionId, currentReportId,
                 tokenCache, attemptCounter, clockVars, auxVars, fetchedSinceSwitch>>

handleError(s) == \E msg \in WidgetMessages : handleErrorWith(s, msg)

\* a render timer that neither retries nor reports
renderTimeoutIdle(s) ==
  /\ slots[s].timer
  /\ slots' = Settle([slots EXCEPT ![s].timer = FALSE],
                      handlersOn, iframes, isMounted, currentSessionId)
  /\ UNCHANGED <<effectPending, uiVars, sdkVars, workspaceClean, nextSlot,
                 callVars, propVars, isMounted, currentSessionId,
                 currentReportId, tokenCache, attemptCounter, clockVars,
                 auxVars, fetchedSinceSwitch>>

\* the setTimeout(45000) callback armed after embed
renderTimeout(s) ==
  /\ slots[s].timer
  /\ IF ~slots[s].isResolved /\ isMounted
     THEN IF attemptCounter <= MaxTimeoutRetryAttempt
          THEN /\ nextSlot <= slotLimit
               /\ performHygiene(TRUE)
               /\ slots' = Settle([slots EXCEPT
                    ![s].timer = FALSE, ![s].isResolved = TRUE,
                    ![nextSlot] =
                      [FreeSlot EXCEPT !.pc = "c_hyg1", !.kind = "timer",
                                       !.rep = slots[s].rep]],
                    handlersOn', iframes', isMounted, currentSessionId)
               /\ nextSlot' = nextSlot + 1
               /\ UNCHANGED <<effectPending, uiVars, callVars>>
          ELSE /\ slots' = Settle([slots EXCEPT ![s].timer = FALSE,
                                                ![s].isResolved = TRUE],
                                   handlersOn, iframes, isMounted,
                                   currentSessionId)
               /\ error' = ErrTimeout
               /\ isLoading' = FALSE
               /\ onErrorCalls' = Count(onErrorCalls)
               /\ effectPending' = DepsChanged(FALSE)
               /\ UNCHANGED <<isReady, loadingPhase, loadingProgress, sdkVars,
                              workspaceClean, nextSlot, onSuccessCalls>>
     ELSE /\ slots' = Settle([slots EXCEPT ![s].timer = FALSE],
                              handlersOn, iframes, isMounted,
                              currentSessionId)
          /\ UNCHANGED <<effectPending, uiVars, sdkVars, workspaceClean,
                         nextSlot, callVars>>
  /\ UNCHANGED <<propVars, isMounted, currentSessionId, currentReportId,
                 tokenCache, attemptCounter, clockVars, auxVars, fetchedSinceSwitch>>

\* ----------------------------------------------------------------- Next
\* what the event loop runs without the host: resumed awaits, timers,
\* backend responses, widget events and the dashboard effect
Continue ==
  \/ useEffectDashboard
  \/ \E s \in Slots : performHygieneResume(s)
  \/ \E s \in Slots : chainResume(s)
  \/ \E s \in Slots : embedReportAfterHygiene(s)
  \/ \E s \in Slots : getEmbedTokenResponse(s)
  \/ \E s \in Slots : embedReportAfterStabilize(s)
  \/ \E s \in Slots : embedCallback(s)
  \/ \E s \in Slots : embedAfterReset(s)
  \/ \E s \in Slots : handleLoaded(s)
  \/ \E s \in Slots : handleRendered(s)
  \/ \E s \in Slots : handleError(s)
  \/ \E s \in Slots : renderTimeout(s)

\* the viewer with a host that starts, retries, changes the dashboard and
\* unmounts
Next ==
  \/ handleStartLoading
  \/ handleRetry
  \/ dashboardChange
  \/ unmount
  \/ Continue

Spec == Init /\ [][Next]_vars

\* the viewer left alone on one dashboard: the host only starts and retries
NextAuto ==
  \/ handleStartLoading
  \/ handleRetry
  \/ Continue

SpecAuto == InitAuto /\ [][NextAuto]_vars

\* the viewer while the credential cache ages: retries, dashboard changes
\* and the clock
NextCache ==
  \/ handleRetry
  \/ dashboardChange
  \/ tick
  \/ Continue

SpecCache == InitCache /\ [][NextCache]_vars

\* the viewer with the debug panel in use
NextDebug ==
  \/ debugReload
  \/ debugHygiene
  \/ Continue

SpecDebug == Init /\ [][NextDebug]_vars

\* ------------------------------------------------- failures in hygiene
\* performHygiene(true) rejects: new service.Service(...) of step 3 throws
\* once steps 1 and 2 have removed the handlers and reset the container.
ErrServiceThrew == "Service constructor failed"
ErrAfterRetries == "Nao foi possivel carregar apos multiplas tentativas"
MinEscalateAttempt == 3

performHygieneThrows ==
  /\ handlersOn' = handlersOn \ {powerBiReport}
  /\ powerBiReport' = 0
  /\ container' = IF powerBiService # 0 THEN ResetContainer ELSE container
  /\ iframes' = HygieneIframes
  /\ workspaceClean' = FALSE
  /\ UNCHANGED powerBiService

\* embedReport(true) of a chain whose own performHygiene rejects: the catch
\* of embedReport
embedReportHygieneThrows(s) ==
  /\ slots[s].pc = "c_hyg2"
  /\ isMounted
  /\ slots[s].kind \in {"effect", "timer", "errRetry"}
  /\ slots[s].kind = "errRetry" => slots[s].parent = currentSessionId
  /\ isReady' = FALSE
  /\ attemptCounter' = attemptCounter + 1
  /\ currentSessionId' = s
  /\ currentReportId' = slots[s].rep
  /\ loadingPhase' = "preparing"
  /\ loadingProgress' = 10
  /\ performHygieneThrows
  /\ error' = ErrServiceThrew
  /\ isLoading' = FALSE
  /\ onErrorCalls' = Count(onErrorCalls)
  /\ effectPending' = DepsChanged(FALSE)
  /\ slots' = Settle([slots EXCEPT ![s] = DoneSlot],
                      handlersOn', iframes', isMounted, s)
  /\ UNCHANGED <<propVars, isMounted, tokenCache, clockVars, auxVars, nextSlot,
                 onSuccessCalls, fetchedSinceSwitch>>

\* handleError's automatic retry whose performHygiene(true) rejects: the
\* catch of the retry sets the error only from the third attempt on
handleErrorHygieneThrows(s) ==
  /\ Emits(s)
  /\ ~(slots[s].isResolved \/ ~isMounted)
  /\ attemptCounter <= MaxUrlRetryAttempt
  /\ performHygieneThrows
  /\ IF attemptCounter >= MinEscalateAttempt
     THEN /\ slots' = Settle([slots EXCEPT ![s].isResolved = TRUE],
                              handlersOn', iframes', isMounted,
                              currentSessionId)
          /\ error' = ErrAfterRetries
          /\ isLoading' = FALSE
          /\ onErrorCalls' = Count(onErrorCalls)
          /\ effectPending' = DepsChanged(FALSE)
          /\ UNCHANGED <<isReady, loadingPhase, loadingProgress,
                         onSuccessCalls>>
     ELSE /\ slots' = Settle(slots, handlersOn', iframes', isMounted,
                              currentSessionId)
          /\ UNCHANGED <<effectPending, uiVars, callVars>>
  /\ UNCHANGED <<propVars, isMounted, powerBiService, currentSessionId,
                 currentReportId, tokenCache, attemptCounter, clockVars,
                 auxVars, nextSlot, fetchedSinceSwitch>>

\* the render timer's retry whose performHygiene(true) rejects: the promise
\* has a then() and no catch()
renderTimeoutHygieneThrows(s) ==
  /\ slots[s].timer
  /\ ~slots[s].isResolved /\ isMounted
  /\ attemptCounter <= MaxTimeoutRetryAttempt
  /\ performHygieneThrows
  /\ slots' = Settle([slots EXCEPT ![s].timer = FALSE,
                                   ![s].isResolved = TRUE],
                      handlersOn', iframes', isMounted, currentSessionId)
  /\ escaped' = TRUE
  /\ UNCHANGED <<validatorVars, disposeVars, sideVars>>
  /\ UNCHANGED <<propVars, isMounted, effectPending, uiVars, powerBiService,
                 currentSessionId, currentReportId, tokenCache, attemptCounter,
                 clockVars, nextSlot, callVars, fetchedSinceSwitch>>

\* the viewer left alone on one dashboard, with an SDK whose constructor can
\* fail
InitFail == InitViewer /\ ValidatorIdle /\ DisposeIdle /\ SideIdle /\ slotLimit = MaxFailSlots

NextFail ==
  \/ handleStartLoading
  \/ handleRetry
  \/ Continue
  \/ \E s \in Slots : embedReportHygieneThrows(s)
  \/ \E s \in Slots : handleErrorHygieneThrows(s)
  \/ \E s \in Slots : renderTimeoutHygieneThrows(s)

SpecFail == InitFail /\ [][NextFail]_vars

\* ------------------------------------------------------------ teardown
\* Either viewer runs until its unmount cleanup is run, and from then on
\* only further runs of the cleanup are looked at.
InitDispose ==
  /\ InitViewer /\ ValidatorIdle /\ SideIdle /\ slotLimit = MaxDisposeSlots
  /\ teardowns = 0
  /\ radical \in RadicalStates

NextDispose ==
  \/ teardowns = 0 /\ Continue
  \/ dispose
  \/ radicalUnmount
  \/ radicalCleanupResume

SpecDispose == InitDispose /\ [][NextDispose]_vars

\* ------------------------------------------------------------ one viewer
\* The host renders one of the two viewers and starts or retries a load;
\* the viewer it does not render stays as constructed.
CanonicalAtRest == effectPending /\ nextSlot = 1 /\ currentSessionId = 0

InitViewers ==
  /\ InitViewer /\ ValidatorIdle /\ DisposeIdle /\ SideIdle
  /\ slotLimit = MaxViewerSlots

RadicalUnused == radical = RadicalAtRest

NextViewers ==
  \/ RadicalUnused /\ handleStartLoading
  \/ RadicalUnused /\ handleRetry
  \/ RadicalUnused /\ Continue
  \/ CanonicalAtRest /\ radicalHandleStartLoading
  \/ CanonicalAtRest /\ radicalHandleRetry
  \/ CanonicalAtRest /\ radicalCleanupResume
  \/ CanonicalAtRest /\ radicalAfterWait
  \/ CanonicalAtRest /\ radicalFetchResponse
  \/ CanonicalAtRest /\ radicalLoaded
  \/ CanonicalAtRest /\ radicalRendered
  \/ CanonicalAtRest /\ radicalError

SpecViewers == InitViewers /\ [][NextViewers]_vars

\* ------------------------------------------- the radical-cleanup viewer
\* The radical-cleanup viewer alone, with a host that starts, retries and
\* changes the dashboard.
InitRadical ==
  /\ InitViewer /\ ValidatorIdle /\ DisposeIdle /\ SideIdle /\ slotLimit = 0

NextRadical ==
  \/ radicalHandleStartLoading
  \/ radicalHandleRetry
  \/ radicalDashboardChange
  \/ radicalCleanupResume
  \/ radicalAfterWait
  \/ radicalFetchResponse
  \/ radicalLoaded
  \/ radicalRendered
  \/ radicalError

SpecRadical == InitRadical /\ [][NextRadical]_vars

\* --------------------------------------------------------- missing ids
\* The host hands the viewer a dashboard whose dataset_id is empty.
IdsMissing(rep) == rep = NoReport \/ datasetOf[rep] = NoDataset

InitMissing ==
  /\ dashboard = "A"
  /\ datasetOf = [r \in Reports |-> NoDataset]
  /\ InitRefs /\ ValidatorIdle /\ DisposeIdle /\ SideIdle
  /\ slotLimit = MaxMissingSlots

NextMissing ==
  \/ handleStartLoading
  \/ handleRetry
  \/ Continue

SpecMissing == InitMissing /\ [][NextMissing]_vars

\* ------------------------------------------------------ events delivered
\* The viewer left alone on one dashboard, on a page that may hold a
\* PowerBI iframe of another component.  Every timer fires, every await
\* resumes and the backend answers every token request; the widget may stay
\* silent, and the host presses its buttons or not.
InitLive ==
  /\ InitViewer /\ ValidatorIdle /\ DisposeIdle /\ LogsIdle
  /\ services = NoServices /\ simple = SimpleAtRest
  /\ datasetOf["B"] = "d1"
  /\ strayIframe \in BOOLEAN
  /\ slotLimit = MaxLiveSlots

NextLive ==
  \/ handleStartLoading
  \/ handleRetry
  \/ Continue

\* the steps of chain s that a timer, a resumed await or the backend's
\* answer runs
TimedStep(s) ==
  \/ performHygieneResume(s)
  \/ chainResume(s)
  \/ embedReportAfterHygiene(s)
  \/ getEmbedTokenResponse(s)
  \/ embedReportAfterStabilize(s)
  \/ embedCallback(s)
  \/ embedAfterReset(s)
  \/ renderTimeout(s)

FairLive ==
  /\ WF_vars(useEffectDashboard)
  /\ \A s \in Slots : WF_vars(TimedStep(s))

SpecLive == InitLive /\ [][NextLive]_vars /\ FairLive

\* ------------------------------------------- the effect-based viewer
\* The host renders the effect-based viewer, passes other dashboards and
\* unmounts it.
InitSimple ==
  /\ InitViewer /\ ValidatorIdle /\ DisposeIdle /\ SideIdle /\ slotLimit = 0

NextSimple ==
  \/ simpleMount
  \/ simpleDashboardChange
  \/ simpleUnmount
  \/ simpleFetchResponse
  \/ simpleEmbed
  \/ simpleLoaded
  \/ simpleRendered
  \/ simpleError

SpecSimple == InitSimple /\ [][NextSimple]_vars

\* ====================================================================
\* Claims
\* ====================================================================

\* a continuation of the embedReport call with session id s runs
SessionStep(s) ==
  \/ embedReportAfterHygiene(s)
  \/ getEmbedTokenResponse(s)
  \/ embedReportAfterStabilize(s)
  \/ embedCallback(s)
  \/ embedAfterReset(s)
  \/ handleLoaded(s)
  \/ handleRendered(s)
  \/ handleError(s)
  \/ renderTimeout(s)

\* what the host UI observes, and what performHygiene and service.embed touch
Observable == <<uiVars, callVars, sdkVars, workspaceClean>>

\* C1: a continuation that carries a stale session id changes nothing
\* observable: not isLoading/isReady/error/phase/progress, no performHygiene,
\* no service.embed, no onSuccess/onError.
C1_StaleContinuationInert ==
  [][\A s \in Slots :
       (s # currentSessionId /\ SessionStep(s)) => UNCHANGED Observable]_vars

\* an embedReport call that has not reached ready or error and still has a
\* continuation that can act on the container or on the UI state
InFlight(s) ==
  /\ slots[s].kind = "run"
  /\ slots[s].pc \in {"hyg1", "hyg2", "token", "stabilize", "embedCb",
                      "resetWait", "attached"}
  /\ ~(slots[s].pc = "attached" /\ slots[s].isResolved)

\* C2: at every instant the container holds at most one attached widget and
\* at most one session is in flight.
C2_OneWidgetOneSession ==
  /\ Cardinality(container) <= 1
  /\ Cardinality({s \in Slots : InFlight(s)}) <= 1

\* C3: once the dashboard effect has seen a change of report, no continuation
\* of a session of another report than the one shown passes its session
\* check, attaches a widget, sets ready/error or calls onSuccess/onError.
C3_ReportChangeInvalidates ==
  [][\A s \in Slots :
       (~effectPending /\ slots[s].rep # dashboard /\ SessionStep(s))
          => UNCHANGED Observable]_vars

\* C4: between two host commands onSuccess is invoked at most once, onError
\* at most once, and never both.
C4_OneTerminalNotification ==
  /\ onSuccessCalls <= 1
  /\ onErrorCalls <= 1
  /\ ~(onSuccessCalls >= 1 /\ onErrorCalls >= 1)

\* C5: after three attach attempts in a row answered by an embed/URL error the
\* error is surfaced: no fourth attempt is attached by the automatic retry
\* (exactly 3 service.embed calls).
C5_ThreeUrlAttempts ==
  \A s \in Slots : slots[s].pc = "attached" => slots[s].streak < 3

\* C6: an explicit retry starts an attach attempt only while the attempt count
\* is below the cap of 3.
C6_RetryBelowCap == [][handleRetry => attemptCounter < 3]_vars

\* the render timer of slot s expires on an unresolved attempt
TimerExpires(s) ==
  renderTimeout(s) /\ slots[s].timer /\ ~slots[s].isResolved /\ isMounted

\* C7: the render timer of attempt 1 or 2 surfaces no error and starts an
\* automatic re-attempt; the timer of attempt 3 sets the timeout error, calls
\* onError and starts nothing.  The attempt is the one whose timer expired.
C7_TimeoutByAttempt ==
  [][\A s \in Slots : TimerExpires(s) =>
       IF slots[s].attempt <= 2
       THEN error' = error /\ isLoading' = isLoading
            /\ onErrorCalls' = onErrorCalls /\ nextSlot' = nextSlot + 1
       ELSE error' = ErrTimeout /\ ~isLoading' /\ nextSlot' = nextSlot]_vars

\* getEmbedToken answers the embedReport call of slot s, made for the report
\* on display, from the cache
ServedFromCache(s) ==
  /\ embedReportAfterHygiene(s)
  /\ isMounted /\ s = currentSessionId
  /\ slots[s].rep = dashboard
  /\ ShouldUseCache(s)

\* C8: a credential is served from the cache only when a request made since
\* the last report switch went to the network: the first request after a
\* switch is a network fetch even when an unexpired entry exists.
C8_SwitchForcesFetch ==
  [][\A s \in Slots :
       ServedFromCache(s) => fetchedSinceSwitch]_vars

\* C9: when the dashboard effect handles a switch away from report A, the
\* token cache holds no entry for A afterwards.
C9_StaleEntryRemoved ==
  [][(useEffectDashboard /\ currentReportId # dashboard)
       => \A k \in DOMAIN tokenCache' : k[1] # currentReportId]_vars

\* service.embed is called by the continuation of slot s
EmbedBy(s) == (embedCallback(s) \/ embedAfterReset(s)) /\ s \in container'

\* C10: at each service.embed call every earlier widget has had its handlers
\* removed and its embed reset; handlers stay subscribed only for the current
\* session; at most one widget is bound to the container.
C10_DetachedBeforeEmbed ==
  [][/\ \A s \in Slots : EmbedBy(s) => handlersOn = {} /\ container' = {s}
     /\ \A w \in handlersOn' : w = currentSessionId'
     /\ Cardinality(container') <= 1]_vars

\* a hygiene pass or a service.reset started by something else than the start
\* of a session: the dashboard effect, the debug cleanup, the automatic retry
\* of handleError or of the render timer (slot s), the existing-embed check
\* of the embed callback (slot s)
EffectHygiene == useEffectDashboard /\ currentReportId # dashboard
RetryHygiene(s) == (handleError(s) \/ renderTimeout(s)) /\ nextSlot' # nextSlot
ExistingEmbedReset(s) == embedCallback(s) /\ slots'[s].pc = "resetWait"

\* the current session is still in flight and is not the one of slot s
MidFlightOther(s) ==
  \E t \in Slots \ {s} : t = currentSessionId /\ InFlight(t)

\* C11: no hygiene pass and no service.reset runs while a session is
\* mid-flight, whichever trigger starts it (a session's own failure handling
\* counts as the end of that session).
C11_HygieneBetweenSessions ==
  [][/\ (EffectHygiene \/ debugHygiene) => ~MidFlightOther(0)
     /\ \A s \in Slots :
          (RetryHygiene(s) \/ ExistingEmbedReset(s)) => ~MidFlightOther(s)]_vars

\* performHygiene(true) of the chain in slot s returns to its caller
HygieneReturns(s) == chainResume(s) /\ isMounted

\* C12: when performHygiene(true) returns on a mounted viewer, the container
\* holds no widget content, and the value it returns (kept in workspaceClean)
\* is true only then.
C12_CleanAfterDeepHygiene ==
  [][\A s \in Slots : HygieneReturns(s) => iframes = {}]_vars

\* a step of an attach attempt in which performHygiene throws (slot s)
HygieneFailure(s) ==
  \/ embedReportHygieneThrows(s)
  \/ handleErrorHygieneThrows(s)
  \/ renderTimeoutHygieneThrows(s)

\* C13: a failure thrown in a step of an attach attempt ends in the error
\* state (error set, isLoading false), and no rejection is left unhandled.
C13_FailuresBecomeErrors ==
  [][/\ \A s \in Slots :
          HygieneFailure(s) => error' # NoError /\ ~isLoading'
     /\ ~escaped']_vars

\* a token request is awaiting its response
TokenRequested(s) == slots[s].pc = "token"

\* C14: whatever failure answers a token request (timeout, network error,
\* non-2xx status, missing token or embedUrl), getEmbedToken throws nothing,
\* returns null and leaves the token cache as it was.
C14_TokenFailureIsNull ==
  \A s \in Slots : TokenRequested(s) =>
    \A resp \in Failures :
      /\ getEmbedTokenReturn(resp) = TokenNull
      /\ TokenCacheAfter(s, resp) = tokenCache

\* a token request made with an expired entry in the cache has failed: the
\* entry is still there
C14_Witness ==
  /\ isMounted
  /\ error = ErrCredentials
  /\ slots[currentSessionId].pc = "done"
  /\ \E k \in DOMAIN tokenCache : tokenCache[k].expires <= now

\* C15: an entry is stored with expires = time of the fetch + ttl - safety
\* margin, with 0 < margin < ttl, and a credential is served from the cache
\* only at a time now < expires.
C15_FreshCacheOnly ==
  [][/\ 0 < SafetyMargin /\ SafetyMargin < TokenExpiresIn
     /\ \A s \in Slots :
          /\ (getEmbedTokenResponse(s) /\ tokenCache' # tokenCache)
                => tokenCache'[SlotKey(s)].expires
                     = now + TokenExpiresIn - SafetyMargin
          /\ (embedReportAfterHygiene(s) /\ isMounted /\ s = currentSessionId
                /\ slots'[s].pc # "token")
                => /\ SlotKey(s) \in DOMAIN tokenCache
                   /\ now < tokenCache[SlotKey(s)].expires]_vars

\* a request goes to the network at the very instant an entry expires
C15_Witness ==
  \E s \in Slots :
    /\ slots[s].pc = "token"
    /\ SlotKey(s) \in DOMAIN tokenCache
    /\ tokenCache[SlotKey(s)].expires = now

\* ---- validateEmbedUrl
Entries(seq) == {seq[i] : i \in 1..Len(seq)}

\* the check an error entry reports on
CheckOf(entry) ==
  CASE entry \in {"notString", "empty"} -> "string"
    [] entry = "protocol" -> "scheme"
    [] entry = "domain" -> "host"
    [] entry = "path" -> "path"
    [] entry \in {"reportIdAbsent", "reportIdMismatch"} -> "reportId"
    [] OTHER -> "syntax"

\* the checks a locator violates, read off the locator itself
ViolatedChecks(u, expectedId) ==
  {c \in {"string", "scheme", "host", "path", "reportId"} :
     \/ c = "string" /\ u.kind # "text"
     \/ c = "scheme" /\ ~u.https
     \/ c = "host" /\ u.host \notin ServiceHosts
     \/ c = "path" /\ ~u.markerInPath
     \/ c = "reportId" /\ u.reportId # expectedId}

\* the locator passes every check that can put an entry in the error list
PassesErrorChecks(u, expectedId) == ViolatedChecks(u, expectedId) = {}

\* C16: for every locator, validateEmbedUrl returns isValid = true exactly
\* when its error list is empty; whether there are warnings (non-canonical
\* host, missing groupId) makes no difference to isValid.
C16_ValidIffNoErrors ==
  validation.done =>
    (validation.result.isValid <=> validation.result.errors = <<>>)

C16_Witness ==
  /\ validation.done
  /\ validation.result.isValid
  /\ Len(validation.result.warnings) = 2

\* C17: the checks never short-circuit: the error list has an entry for each
\* violated check among non-empty string, https scheme, embedding-service
\* host, embed path marker and reportId present and equal to the expected id,
\* whatever other checks fail.
C17_EveryViolationReported ==
  validation.done =>
    \A c \in ViolatedChecks(locator, dashboard) :
      \E e \in Entries(validation.result.errors) : CheckOf(e) = c

C19_OneWarning ==
  validation.done /\ PassesErrorChecks(locator, dashboard)
    /\ ~locator.groupId =>
      /\ validation.result.isValid
      /\ Len(validation.result.warnings) = 1

\* C19: a locator that passes every error check but lacks groupId is valid
\* and is warned about the missing groupId; that is its only warning when the
\* host is the canonical one, and the second of two when the host is another
\* host of the service. A missing groupId never produces an error.
C19_GroupIdOnlyWarns ==
  validation.done =>
    /\ "groupIdAbsent" \notin Entries(validation.result.errors)
    /\ PassesErrorChecks(locator, dashboard) /\ ~locator.groupId =>
         /\ validation.result.isValid
         /\ validation.result.warnings =
              IF locator.host = CanonicalHost THEN <<"groupIdAbsent">>
              ELSE <<"otherDomain", "groupIdAbsent">>

C19_Witness ==
  /\ validation.done
  /\ PassesErrorChecks(locator, dashboard)
  /\ ~locator.groupId
  /\ locator.host = RegionalHost
  /\ Len(validation.result.warnings) = 2

\* ---- teardown
\* what the radical-cleanup viewer's teardown is to leave clean
RadicalResources(r) ==
  <<r.mounted, r.aborter, r.report, r.listeners, r.service, r.children>>

\* C20: running the unmount teardown a second time in a row raises no error
\* and leaves the listeners, the widget handle, the service and the container
\* as the first run left them, in either viewer; the first run leaves the
\* widget without handlers and the document without its iframes.
C20_TeardownIdempotent ==
  [][/\ dispose =>
          /\ powerBiReport \notin handlersOn'
          /\ iframes' = {}
          /\ escaped' = escaped
     /\ dispose /\ teardowns >= 1 =>
          UNCHANGED <<isMounted, handlersOn, powerBiReport, powerBiService,
                      container, iframes>>
     /\ radicalUnmount /\ ~radical.isCleaning =>
          RadicalResources(radical') =
            <<FALSE, FALSE, FALSE, FALSE, FALSE,
              radical.children /\ ~radical.embed>>
     /\ radicalUnmount /\ radical.last = "teardown" =>
          RadicalResources(radical') = RadicalResources(radical)]_vars

C20_Witness ==
  /\ teardowns = 2
  /\ powerBiReport # 0
  /\ radical.calls = 2
  /\ radical.last = "teardown"
  /\ radical.isCleaning

\* ---- logs
\* the n most recent of the first k entries emitted, in emission order
MostRecent(k, n) ==
  LET kept == IF k < n THEN k ELSE n IN [i \in 1..kept |-> k - kept + i]

\* C21: after any sequence of log calls the retained log holds at most the
\* bound of its viewer (100 in the canonical viewer, 5 in the radical-cleanup
\* viewer) and is exactly the most recent entries in emission order.
C21_LogsBounded ==
  /\ Len(logs) <= 100
  /\ logs = MostRecent(logCalls.logger, 100)
  /\ Len(radicalLogs) <= 5
  /\ radicalLogs = MostRecent(logCalls.addLog, 5)

C21_Witness ==
  /\ logCalls.logger > 100
  /\ logCalls.addLog > 5

\* ---- after unmount
\* C22: once the viewer is unmounted no continuation of any session calls
\* onSuccess or onError, sets error, isLoading or isReady, or attaches a
\* widget.
C22_QuietAfterUnmount ==
  [][\A s \in Slots :
       (~isMounted /\ SessionStep(s)) =>
          UNCHANGED <<error, isLoading, isReady, callVars, container>>]_vars

\* ---- order of the steps
\* the suspension points of one embedReport call, in the order of the code:
\* cleaning (hyg1, hyg2), authenticating (token), validating and configuring
\* (stabilize: validation passed, stabilization delay running), rendering
\* (embedCb, resetWait, attached)
StepsInOrder ==
  {<<"hyg1", "hyg2">>, <<"hyg2", "token">>, <<"hyg2", "stabilize">>,
   <<"token", "stabilize">>, <<"stabilize", "embedCb">>,
   <<"embedCb", "resetWait">>, <<"embedCb", "attached">>,
   <<"resetWait", "attached">>}

\* C23: within one session the steps run in the order cleaning,
\* authenticating, validating, configuring, rendering: the credential request
\* is issued only once hygiene has resolved, validation runs only on the
\* credential (answered or cached), and service.embed is called only after
\* validation succeeded and the stabilization delay elapsed.
C23_StepsInOrder ==
  [][\A s \in Slots :
       /\ (slots[s].kind = "run" /\ slots'[s].pc # slots[s].pc
             /\ slots'[s].pc # "done")
            => <<slots[s].pc, slots'[s].pc>> \in StepsInOrder
       /\ (slots'[s].pc = "token" /\ slots[s].pc # "token")
            => slots[s].pc = "hyg2"
       /\ (slots'[s].pc = "stabilize" /\ slots[s].pc # "stabilize")
            => \/ slots[s].pc = "token"
               \/ slots[s].pc = "hyg2" /\ ShouldUseCache(s)
       /\ EmbedBy(s) => slots[s].pc \in {"embedCb", "resetWait"}]_vars

C23_Witness ==
  \E s \in Slots :
    /\ slots[s].pc = "attached"
    /\ slots[s].attempt = 2
    /\ loadingPhase = "rendering"

\* ---- loaded and rendered
\* C24: a viewer becomes ready only on the widget's rendered signal; a loaded
\* signal alone never makes it ready, never calls onSuccess and never ends the
\* loading state.
C24_ReadyOnlyOnRendered ==
  [][/\ \A s \in Slots :
          handleLoaded(s) => UNCHANGED <<isReady, isLoading, onSuccessCalls>>
     /\ (isReady' /\ ~isReady) => \E s \in Slots : handleRendered(s)
     /\ radicalLoaded => radical'.phase = radical.phase
     /\ (radical'.phase = "ready" /\ radical.phase # "ready")
          => radicalRendered]_vars

\* ---- validation failure
\* the locator the embedReport call of slot s validates: the one its
\* credential carries, as getEmbedToken stored it; it passes validation when
\* it carries the report id of the session
SessionLocator(s) == tokenCache'[SlotKey(s)].url

\* the embedReport call of slot s runs its validation phase
ValidationStep(s) ==
  /\ getEmbedTokenResponse(s) \/ embedReportAfterHygiene(s)
  /\ isMounted /\ s = currentSessionId
  /\ slots'[s].pc = "stabilize" \/ error' = ErrInvalidUrl

\* C25: a locator that fails validation ends the attempt in the error state
\* at once: no widget is attached and no re-attempt is scheduled by that
\* step, and service.embed only ever gets a locator that passed validation
\* for the report of its session.
C25_InvalidLocatorIsFatal ==
  [][/\ \A s \in Slots :
          ValidationStep(s) =>
            IF SessionLocator(s) = slots[s].rep
            THEN slots'[s].pc = "stabilize" /\ error' = error
            ELSE /\ error' = ErrInvalidUrl /\ ~isLoading'
                 /\ slots'[s].pc = "done"
                 /\ nextSlot' = nextSlot
                 /\ UNCHANGED sdkVars
     /\ \A s \in Slots :
          EmbedBy(s) => slots[s].pc \in {"embedCb", "resetWait"}
     /\ radicalFetchResponse /\ radical'.error = ErrUrlInvalid =>
          /\ radical'.phase = "error" /\ radical'.pc = "idle"
          /\ ~radical'.report
          /\ radical'.retries = radical.retries
     /\ radical'.report =>
          ValidationResult(radical'.embedded, dashboard).isValid]_vars

\* the second attempt of the canonical viewer was refused its locator
C25_Witness ==
  /\ error = ErrInvalidUrl /\ ~isLoading
  /\ attemptCounter = 2
  /\ slots[currentSessionId].pc = "done"
  /\ container = {}

\* ---- credential failure
\* the token request of the current session of a mounted viewer is answered
\* by a failure (the attempt ends there, and not on its locator)
CredentialFailure(s) ==
  /\ getEmbedTokenResponse(s)
  /\ isMounted /\ s = currentSessionId
  /\ slots'[s].pc = "done"
  /\ error' # ErrInvalidUrl

\* C26: a credential fetch failure is transient: on attempts 1 and 2 no error
\* is surfaced and an automatic re-attempt is started after a forced deep
\* cleanup; only the failure of attempt 3 is surfaced as fatal.
C26_CredentialFailureRetried ==
  [][\A s \in Slots :
       CredentialFailure(s) =>
         IF slots[s].attempt < 3
         THEN /\ error' = error /\ isLoading' = isLoading
              /\ onErrorCalls' = onErrorCalls
              /\ nextSlot' = nextSlot + 1
         ELSE error' # NoError /\ ~isLoading']_vars

\* C27: a session goes from authenticating to validating only with a
\* credential; when the request of the current session fails, the session
\* ends in the error state with the credentials reason, the validator is not
\* run and no widget is attached.
C27_NoCredentialNoValidation ==
  [][\A s \in Slots :
       /\ (slots[s].pc = "token" /\ slots'[s].pc = "stabilize")
            => /\ SlotKey(s) \in DOMAIN tokenCache'
               /\ tokenCache'[SlotKey(s)].url = slots[s].rep
       /\ (getEmbedTokenResponse(s) /\ isMounted /\ s = currentSessionId
             /\ SlotKey(s) \notin DOMAIN tokenCache')
            => /\ error' = ErrCredentials /\ ~isLoading'
               /\ slots'[s].pc = "done"
               /\ loadingPhase' = "authenticating"
               /\ UNCHANGED sdkVars]_vars

\* the third attempt in a row was left without a credential
C27_Witness ==
  /\ error = ErrCredentials /\ ~isLoading
  /\ attemptCounter = 3
  /\ slots[currentSessionId].pc = "done"
  /\ DOMAIN tokenCache = {}
  /\ loadingPhase = "authenticating"

\* C28: an error event of the widget whose message is neither an embed nor
\* a URL error is surfaced at once: the error is the message, loading ends,
\* onError is called once and no attempt is started.
C28_OtherWidgetErrorSurfaces ==
  [][\A s \in Slots :
       handleErrorWith(s, MsgTokenExpired) =>
         /\ error' = MsgTokenExpired
         /\ ~isLoading'
         /\ onErrorCalls' = Count(onErrorCalls)
         /\ nextSlot' = nextSlot
         /\ attemptCounter' = attemptCounter
         /\ \A t \in Slots : slots'[t].pc # slots[t].pc => slots'[t].pc = "done"]_vars

\* the widget of the first attempt reported an expired token
C28_Witness ==
  /\ isMounted /\ error = MsgTokenExpired /\ ~isLoading /\ ~isReady
  /\ onErrorCalls = 1 /\ attemptCounter = 1
  /\ container # {}

\* C29: cleanup never blocks.  A session that is cleaning, current and
\* mounted leaves the cleaning step, and when it leaves it still current and
\* mounted it has gone on to authenticating (or, with a cached credential,
\* straight on to validation), whatever performHygiene found.
Cleaning(s) == slots[s].pc \in {"hyg1", "hyg2"}
CurrentSession(s) == isMounted /\ s = currentSessionId

C29_CleanupNeverBlocks ==
  /\ [][\A s \in Slots :
          (Cleaning(s) /\ CurrentSession(s) /\ ~Cleaning(s)'
             /\ CurrentSession(s)')
            => \/ slots'[s].pc = "token" /\ loadingPhase' = "authenticating"
               \/ ShouldUseCache(s)]_vars
  /\ \A s \in Slots :
       (Cleaning(s) /\ CurrentSession(s))
          ~> (~Cleaning(s) \/ ~CurrentSession(s))

\* the first session is authenticating although its hygiene left the
\* workspace not clean
C29_Witness ==
  /\ strayIframe /\ ~workspaceClean
  /\ CurrentSession(1)
  /\ slots[1].pc = "token" /\ loadingPhase = "authenticating"

\* C30: with timers, awaits and token responses delivered, a mounted viewer
\* that is loading eventually stops loading (ready, or an error with
\* isLoading false), unless it is unmounted or the run has no chain left
\* for an automatic retry that is still due.
RetryCutShort ==
  nextSlot > slotLimit /\ attemptCounter <= MaxTimeoutRetryAttempt

C31_DeepReplacesService ==
  [][services'.calls # services.calls =>
       IF services'.calls[Len(services'.calls)]
       THEN /\ services'.current \notin 0..services.built
            /\ services'.built = services.built + 1
       ELSE services.current # 0 =>
              /\ services'.current = services.current
              /\ services'.built = services.built]_vars

\* a light pass kept the instance a deep pass had constructed, and a
\* further deep pass replaced it
C31_Witness ==
  /\ services.calls = <<TRUE, FALSE, TRUE>>
  /\ services.current = 2 /\ services.built = 2

\* C32: for a dashboard that lacks its report id or its dataset id no
\* credential request is in flight and no widget is attached.
C32_MissingIdsAreFatal ==
  IdsMissing(dashboard) =>
    /\ \A s \in Slots : slots[s].pc # "token"
    /\ container = {}

\* C33: in the radical-cleanup viewer, from a report change until the user
\* issues start (hasStarted false) the phase is idle and no widget is
\* attached.
C33_IdleUntilStart ==
  ~radical.hasStarted =>
    /\ radical.phase = "idle"
    /\ ~radical.report /\ ~radical.children

\* C34: both validators reject a locator whose host is not a host of the
\* embedding service, with a host error from the one that lists errors; a
\* locator on a service host other than app.powerbi.com that passes the other
\* checks is valid for both and carries the other-domain warning.
C34_HostDecides ==
  (validation.done /\ locator.kind = "text" /\ locator.parses) =>
    /\ locator.host \notin ServiceHosts =>
         /\ ~validation.result.isValid
         /\ "domain" \in Entries(validation.result.errors)
         /\ ~validation.valid
    /\ (locator.host \in ServiceHosts \ {CanonicalHost}
          /\ PassesErrorChecks(locator, dashboard)) =>
         /\ validation.result.isValid
         /\ "otherDomain" \in Entries(validation.result.warnings)
         /\ validation.valid

\* C35: once the viewer is ready and no call is in progress, no step other
\* than a host command takes isReady back, sets an error, or removes or
\* replaces the attached widget.  (With the host of SpecAuto no command is
\* enabled while ready, so every step from such a state is a timer or a
\* widget event.)
NoCallInProgress == \A s \in Slots : slots[s].pc \in {"free", "done", "attached"}

C35_ReadyStays ==
  [][(isMounted /\ isReady /\ ~isLoading /\ NoCallInProgress) =>
       /\ isReady' /\ error' = error
       /\ container' = container /\ iframes' = iframes
       /\ powerBiReport' = powerBiReport]_vars

\* C36: a widget attached to the container shows the report the host
\* currently requests, and currentReportId is never set to a report the host
\* has switched away from.
C36_AttachedIsRequested ==
  /\ [](~effectPending =>
          \A s \in container : slots[s].pc = "attached" => slots[s].rep = dashboard)
  /\ [][(~effectPending /\ currentReportId' # currentReportId) =>
          currentReportId' = dashboard']_vars

\* C37: isReady implies that nothing is loading and that no error is set.
C37_ReadyIsClean == isReady => (~isLoading /\ error = NoError)

\* C38: the radical-cleanup viewer never attaches a widget while a
\* radicalCleanup is in progress, and the final verification of a cleanup
\* never empties a container that holds a widget.
C38_NoEmbedWhileCleaning ==
  [][/\ (radical'.children /\ ~radical.children) => ~radical.isCleaning
     /\ (radical.isCleaning /\ ~radical'.isCleaning) =>
          radical'.children = radical.children]_vars

\* C39: in the effect-based viewer a step taken by an effect run after that
\* run's cleanup (the continuation after an await, the catch block, or a
\* widget handler) attaches no widget and leaves isLoading, isAuthenticating
\* and embedError as they are.
SimpleContinuations == {"response", "embed", "loaded", "rendered", "error"}

C39_CleanedRunIsInert ==
  [][\A r \in Runs :
       (/\ simple'.by = r /\ simple'.last \in SimpleContinuations
        /\ simple' # simple
        /\ ~simple.runs[r].isMounted) =>
         /\ simple'.widget = simple.widget
         /\ simple'.isLoading = simple.isLoading
         /\ simple'.isAuthenticating = simple.isAuthenticating
         /\ simple'.embedError = simple.embedError]_vars

\* a run cleaned up by a report change skipped its embed, another failed
\* after its cleanup, and the latest run is attached
C39_Witness ==
  /\ simple.mounted
  /\ \E r \in Runs : simple.runs[r].pc = "skipped"
  /\ \E r \in Runs : simple.runs[r].pc = "failed" /\ simple.embedError = NoError
  /\ simple.widget = simple.current /\ simple.widget # 0

====
